---------------------------- MODULE Spec2Model ----------------------------
(***************************************************************************)
(* Dismissal planner of the school attendance system (src/app.py).         *)
(*                                                                         *)
(* State: the tables students, daily_dismissal, dismissal_today and         *)
(* electives, the request being served and its response.  Every route      *)
(* handler is one action; under Spec, SpecBatch, SpecAdmin and SpecStaff    *)
(* the handlers run one request at a time.  Under SpecRace requests are    *)
(* served concurrently: procs holds, for each request in progress, the     *)
(* statement its handler is at and the handler's local variables.  session *)
(* is the Flask session of the client sending the requests.                *)
(*                                                                         *)
(* Representation                                                          *)
(*  - SQL NULL / Python None / a missing JSON key value is NULL for scalar *)
(*    columns, NoneText for text that is processed character by character. *)
(*  - Text that the code trims, compares or sorts (grade, names) is a      *)
(*    sequence of one-character strings; other text is a TLA+ string.      *)
(*  - A date string "YYYY-MM-DD" is the triple <<YYYY, MM, DD>> of its     *)
(*    fields; date.fromisoformat accepts it iff the fields name a day of   *)
(*    the calendar.                                                        *)
(*  - daily_dismissal is a bag of rows without dismissal_id and            *)
(*    recorded_at: no handler modelled here reads either column.           *)
(*    dismissal_today likewise, without dismissal_id and updated_at.       *)
(*  - electives is the set of names in the electives table.                *)
(***************************************************************************)
EXTENDS Bags, FiniteSets, Integers, Naturals, Sequences, TLC

VARIABLES students, daily_dismissal, dismissal_today, electives,
          sql_conflict, req, resp, procs, session

vars == <<students, daily_dismissal, dismissal_today, electives,
          sql_conflict, req, resp, procs, session>>

(***************************************************************************)
(* Bounds of the model.                                                    *)
(***************************************************************************)
MaxRows == 2        \* rows the daily_dismissal table may hold
MaxLen == 3         \* length of a grade text fed to calc_ends_in

NULL == "NULL"
NoneText == <<"None">>

(***************************************************************************)
(* Text helpers.                                                           *)
(***************************************************************************)
Whitespace == {" ", "\t"}

RECURSIVE LStrip(_)
LStrip(s) ==
    IF s = <<>> THEN <<>>
    ELSE IF Head(s) \in Whitespace THEN LStrip(Tail(s)) ELSE s

RECURSIVE RStrip(_)
RStrip(s) ==
    IF s = <<>> THEN <<>>
    ELSE IF s[Len(s)] \in Whitespace THEN RStrip(SubSeq(s, 1, Len(s) - 1)) ELSE s

\* str.strip()
Strip(s) == RStrip(LStrip(s))

\* code points of the characters that occur in names (SQLite BINARY collation)
Code == (" " :> 32) @@ ("A" :> 65) @@ ("B" :> 66) @@ ("C" :> 67) @@ ("D" :> 68)
        @@ ("a" :> 97) @@ ("b" :> 98) @@ ("c" :> 99) @@ ("d" :> 100)
        @@ ("o" :> 111)

\* a < b in the BINARY collation: bytewise, a proper prefix sorts first
RECURSIVE TextLess(_, _)
TextLess(a, b) ==
    IF b = <<>> THEN FALSE
    ELSE IF a = <<>> THEN TRUE
    ELSE IF Code[Head(a)] # Code[Head(b)] THEN Code[Head(a)] < Code[Head(b)]
    ELSE TextLess(Tail(a), Tail(b))

(***************************************************************************)
(* Dates: datetime.date.fromisoformat and strftime('%A').                  *)
(***************************************************************************)
IsLeap(y) == (y % 4 = 0) /\ ((y % 100 # 0) \/ (y % 400 = 0))

DaysInMonth(y, m) ==
    IF m = 2 THEN (IF IsLeap(y) THEN 29 ELSE 28)
    ELSE IF m \in {4, 6, 9, 11} THEN 30 ELSE 31

\* fromisoformat raises ValueError unless the fields are a calendar day
IsIsoDate(dt) ==
    /\ dt[1] \in 1..9999
    /\ dt[2] \in 1..12
    /\ dt[3] \in 1..DaysInMonth(dt[1], dt[2])

RECURSIVE DaysBeforeMonth(_, _)
DaysBeforeMonth(y, m) ==
    IF m = 1 THEN 0 ELSE DaysBeforeMonth(y, m - 1) + DaysInMonth(y, m - 1)

\* date.toordinal(): 0001-01-01 is day 1
ToOrdinal(dt) ==
    LET y1 == dt[1] - 1
    IN  y1 * 365 + (y1 \div 4) - (y1 \div 100) + (y1 \div 400)
        + DaysBeforeMonth(dt[1], dt[2]) + dt[3]

DayNames == <<"Monday", "Tuesday", "Wednesday", "Thursday", "Friday",
              "Saturday", "Sunday">>

\* d_obj.strftime('%A')
DayName(dt) == DayNames[((ToOrdinal(dt) + 6) % 7) + 1]

D_Tue == <<2026, 2, 17>>
D_Thu == <<2026, 2, 19>>
D_Sat == <<2026, 2, 21>>
D_Bad == <<2026, 2, 30>>      \* "2026-02-30": not a calendar day

WriteDates == {D_Tue, D_Thu}
ViewDates == {D_Tue, D_Thu, D_Sat, D_Bad}


(***************************************************************************)
(* The students table.  Rows are never inserted or deleted by the routes   *)
(* modelled here; the directory the application starts from is one of      *)
(* Directories.                                                            *)
(***************************************************************************)
StudentRow(id, first, last, grade, status, mon, tue, wed, thu, fri) ==
    [student_id |-> id, first_name |-> first, last_name |-> last,
     grade |-> grade, status |-> status,
     dismissal_mon |-> mon, dismissal_tue |-> tue, dismissal_wed |-> wed,
     dismissal_thu |-> thu, dismissal_fri |-> fri]

\* a typical directory: two active students, one inactive
DirA ==
    { StudentRow(1, <<"A", "d">>, <<"C", "a">>, <<"2">>, "active",
                 "bus", "bus", NULL, "pickup", NULL),
      StudentRow(2, <<"B", "o">>, <<"B", "a">>, <<"6">>, "active",
                 "pickup", "activity", "", NULL, "bus"),
      StudentRow(3, <<"C", "d">>, <<"a", "b">>, <<"K">>, "inactive",
                 "bus", "bus", "bus", "bus", "bus") }

\* a directory with an untrimmed grade, a missing grade, an empty default,
\* a guest, and no active student in grade 6
DirB ==
    { StudentRow(1, <<"A", "d">>, <<"C", "a">>, <<" ", "3">>, "active",
                 NULL, "", NULL, "activity", "bus"),
      StudentRow(2, <<"B", "o">>, <<"B", "a">>, <<"6">>, "guest",
                 "pickup", "pickup", "bus", "bus", "bus"),
      StudentRow(3, <<"C", "d">>, <<"a", "b">>, NoneText, "active",
                 "pickup", "bus", NULL, NULL, NULL) }

Directories == {DirA, DirB}

StudentIds == {1, 2, 3}

(***************************************************************************)
(* The daily_dismissal table (init_dismissal_tables) and its statements.   *)
(***************************************************************************)
DismissalRow(sid, date, type, dest, notes, override) ==
    [student_id |-> sid, dismissal_date |-> date, dismissal_type |-> type,
     destination |-> dest, notes |-> notes, is_override |-> override]

\* the rows S of table t (those a WHERE clause selects), with their multiplicity
Rows(t, S) == [r \in S |-> t[r]]

\* rows that collide with (sid, date) on UNIQUE(student_id, dismissal_date)
Conflicting(t, sid, date) ==
    {r \in DOMAIN t : r.student_id = sid /\ r.dismissal_date = date}

\* SELECT COUNT(*) FROM daily_dismissal WHERE dismissal_date = ?
CountForDate(t, date) ==
    BagCardinality(Rows(t, {r \in DOMAIN t : r.dismissal_date = date}))

\* replace row old of t by row new (UPDATE of one row)
UpdateRow(t, old, new) == (t (-) SetToBag({old})) (+) SetToBag({new})

\* a plain INSERT into a table without the UNIQUE constraint
UpsertPlan_insert(t, row) == t (+) SetToBag({row})

\* an upsert whose DO UPDATE leaves notes and is_override as they were
UpsertPlan_typeonly(t, row) ==
    LET c == Conflicting(t, row.student_id, row.dismissal_date)
    IN  IF c = {} THEN t (+) SetToBag({row})
        ELSE LET old == CHOOSE r \in c : TRUE
             IN  UpdateRow(t, old,
                     [old EXCEPT !.dismissal_type = row.dismissal_type,
                                 !.destination = row.destination])

\* INSERT ... ON CONFLICT(student_id, dismissal_date) DO UPDATE SET
\*   dismissal_type, destination, notes, is_override = excluded.*
UpsertPlan(t, row) ==
    LET c == Conflicting(t, row.student_id, row.dismissal_date)
    IN  IF c = {} THEN t (+) SetToBag({row})
        ELSE LET old == CHOOSE r \in c : TRUE
             IN  UpdateRow(t, old,
                     [old EXCEPT !.dismissal_type = row.dismissal_type,
                                 !.destination = row.destination,
                                 !.notes = row.notes,
                                 !.is_override = row.is_override])

\* the bulk statement with the DO UPDATE of save_dismissal_plan
UpsertBulk_allfields(t, row) == UpsertPlan(t, row)

\* INSERT ... ON CONFLICT(student_id, dismissal_date) DO UPDATE SET
\*   dismissal_type, destination = excluded.*      (save_dismissal_bulk)
UpsertBulk(t, row) ==
    LET c == Conflicting(t, row.student_id, row.dismissal_date)
    IN  IF c = {} THEN t (+) SetToBag({row})
        ELSE LET old == CHOOSE r \in c : TRUE
             IN  UpdateRow(t, old,
                     [old EXCEPT !.dismissal_type = row.dismissal_type,
                                 !.destination = row.destination])

\* an INSERT that no unique key stops
InsertOrIgnore_duplicate(t, row) == t (+) SetToBag({row})

\* INSERT OR IGNORE INTO daily_dismissal
InsertOrIgnore(t, row) ==
    IF Conflicting(t, row.student_id, row.dismissal_date) = {}
    THEN t (+) SetToBag({row})
    ELSE t

\* a DELETE that forgets the date: WHERE student_id = ?
DeletePlan_alldates(t, sid, date) ==
    Rows(t, {r \in DOMAIN t : r.student_id # sid})

\* DELETE FROM daily_dismissal WHERE student_id = ? AND dismissal_date = ?
DeletePlan(t, sid, date) ==
    Rows(t, {r \in DOMAIN t : ~(r.student_id = sid /\ r.dismissal_date = date)})

(***************************************************************************)
(* The electives table and init_dismissal_tables, which every handler of   *)
(* /api/dismissal/today runs first.  CREATE TABLE IF NOT EXISTS leaves an  *)
(* existing table as it is.                                                *)
(***************************************************************************)
default_electives == {"Art", "Music", "PE", "Library", "Technology",
                      "Drama", "Spanish", "French", "Mandarin", "STEM"}

\* if COUNT(*) of electives is 0: INSERT OR IGNORE each default name
SeedElectives(e) == IF Cardinality(e) = 0 THEN default_electives ELSE e

\* the electives table after init_dismissal_tables()
init_dismissal_tables(e) == SeedElectives(e)

(***************************************************************************)
(* The dismissal_today table (init_dismissal_tables) and its statements.   *)
(***************************************************************************)
TodayRow(sid, plan_date, bus_route, activity, ends_in, elective_name, notes) ==
    [student_id |-> sid, plan_date |-> plan_date, bus_route |-> bus_route,
     activity |-> activity, ends_in |-> ends_in,
     elective_name |-> elective_name, notes |-> notes]

\* rows that collide with (sid, plan_date) on UNIQUE(student_id, plan_date)
ConflictingToday(t, sid, plan_date) ==
    {r \in DOMAIN t : r.student_id = sid /\ r.plan_date = plan_date}

\* INSERT INTO dismissal_today ... ON CONFLICT(student_id, plan_date)
\*   DO UPDATE SET bus_route, activity, ends_in, elective_name, notes = excluded.*
UpsertToday(t, row) ==
    LET c == ConflictingToday(t, row.student_id, row.plan_date)
    IN  IF c = {} THEN t (+) SetToBag({row})
        ELSE LET old == CHOOSE r \in c : TRUE
             IN  UpdateRow(t, old, row)

\* DELETE FROM dismissal_today WHERE plan_date = ?
ClearToday(t, plan_date) ==
    Rows(t, {r \in DOMAIN t : r.plan_date # plan_date})

(***************************************************************************)
(* get_dismissal_today: the ends-in rules.                                 *)
(***************************************************************************)
LOWER_SCHOOL == {<<"1">>, <<"2">>, <<"3">>, <<"4">>}
MIDDLE_SCHOOL == {<<"5">>, <<"6">>, <<"7">>, <<"8">>}

\* calc_ends_in comparing the grade as stored, without strip()
calc_ends_in_unstripped(grade, day_name) ==
    LET g == IF grade = NoneText THEN <<>> ELSE grade
    IN  IF g \in LOWER_SCHOOL /\ day_name = "Tuesday" THEN <<"elective", "Elective">>
        ELSE IF g \in MIDDLE_SCHOOL /\ day_name = "Tuesday" THEN <<"elective", "Advisory">>
        ELSE IF g \in MIDDLE_SCHOOL /\ day_name = "Thursday" THEN <<"elective", "Elective">>
        ELSE <<"homeroom", NULL>>

\* calc_ends_in(grade), with the day_name it closes over as a parameter
calc_ends_in(grade, day_name) ==
    LET g == Strip(IF grade = NoneText THEN <<>> ELSE grade)
    IN  IF g \in LOWER_SCHOOL /\ day_name = "Tuesday" THEN <<"elective", "Elective">>
        ELSE IF g \in MIDDLE_SCHOOL /\ day_name = "Tuesday" THEN <<"elective", "Advisory">>
        ELSE IF g \in MIDDLE_SCHOOL /\ day_name = "Thursday" THEN <<"elective", "Elective">>
        ELSE <<"homeroom", NULL>>

(***************************************************************************)
(* get_dismissal_today: the two queries.                                   *)
(***************************************************************************)
\* `if grade_filter`: None and '' mean no filter
HasFilter(grade_filter) == grade_filter # NoneText /\ grade_filter # <<>>

\* the WHERE clause without the status test
ActiveStudents_anystatus(dir, grade_filter) ==
    {s \in dir : HasFilter(grade_filter) =>
                    (s.grade # NoneText /\ s.grade = grade_filter)}

\* WHERE status = 'active' [AND grade = ?]
ActiveStudents(dir, grade_filter) ==
    {s \in dir : /\ s.status = "active"
                 /\ HasFilter(grade_filter) =>
                        (s.grade # NoneText /\ s.grade = grade_filter)}

\* x sorts before y under ORDER BY last_name, first_name (ties: rowid order)
NameBefore(x, y) ==
    \/ TextLess(x.last_name, y.last_name)
    \/ /\ x.last_name = y.last_name
       /\ \/ TextLess(x.first_name, y.first_name)
          \/ x.first_name = y.first_name /\ x.student_id < y.student_id

\* the rows in rowid order, as a query without ORDER BY returns them
RECURSIVE OrderById(_)
OrderById(S) ==
    IF S = {} THEN <<>>
    ELSE LET m == CHOOSE x \in S : \A y \in S : x.student_id <= y.student_id
         IN  <<m>> \o OrderById(S \ {m})

RECURSIVE OrderByName(_)
OrderByName(S) ==
    IF S = {} THEN <<>>
    ELSE LET m == CHOOSE x \in S : \A y \in S \ {x} : NameBefore(x, y)
         IN  <<m>> \o OrderByName(S \ {m})

\* one result row of either query, before the ends-in loop
ViewRow(s, dismissal, activity, notes) ==
    [id |-> s.student_id, firstName |-> s.first_name, lastName |-> s.last_name,
     grade |-> s.grade, dismissal |-> dismissal, activity |-> activity,
     endsIn |-> "homeroom", elective |-> NULL, notes |-> notes]

\* the rows of bag b as a sequence, each as often as it occurs
RECURSIVE BagToSeq(_)
BagToSeq(b) ==
    IF DOMAIN b = {} THEN <<>>
    ELSE LET r == CHOOSE x \in DOMAIN b : TRUE
         IN  <<r>> \o BagToSeq(b (-) SetToBag({r}))

\* an inner JOIN in place of the LEFT JOIN: a student without a record is dropped
InnerJoin(t, s, date) ==
    LET m == BagToSeq(Rows(t, Conflicting(t, s.student_id, date)))
    IN  [i \in 1..Len(m) |->
            ViewRow(s, m[i].dismissal_type, m[i].destination, m[i].notes)]

\* students s LEFT JOIN daily_dismissal d ON d.student_id = s.student_id
\*                                      AND d.dismissal_date = ?
LeftJoin(t, s, date) ==
    LET m == BagToSeq(Rows(t, Conflicting(t, s.student_id, date)))
    IN  IF m = <<>> THEN <<ViewRow(s, NULL, NULL, NULL)>>
        ELSE [i \in 1..Len(m) |->
                 ViewRow(s, m[i].dismissal_type, m[i].destination, m[i].notes)]

RECURSIVE Flatten(_)
Flatten(ss) == IF ss = <<>> THEN <<>> ELSE Head(ss) \o Flatten(Tail(ss))

\* the query of the source = 'today' branch
TodayRows(t, dir, date, grade_filter) ==
    LET ordered == OrderByName(ActiveStudents(dir, grade_filter))
    IN  Flatten([i \in 1..Len(ordered) |-> LeftJoin(t, ordered[i], date)])

day_col_map == [Monday |-> "dismissal_mon", Tuesday |-> "dismissal_tue",
                Wednesday |-> "dismissal_wed", Thursday |-> "dismissal_thu",
                Friday |-> "dismissal_fri"]

\* col = day_col_map.get(day_name, 'dismissal_mon')
DefaultCol(day_name) ==
    IF day_name \in DOMAIN day_col_map THEN day_col_map[day_name]
    ELSE "dismissal_mon"

\* the query of the source = 'default' branch
DefaultRows(dir, date, grade_filter) ==
    LET ordered == OrderByName(ActiveStudents(dir, grade_filter))
        col == DefaultCol(DayName(date))
    IN  [i \in 1..Len(ordered) |-> ViewRow(ordered[i], ordered[i][col], NULL, NULL)]

\* the loop keeping the placeholder endsIn and elective of the query
EndsInLoop_placeholder(rows, day_name) ==
    [i \in 1..Len(rows) |->
        [id |-> rows[i].id, firstName |-> rows[i].firstName,
         lastName |-> rows[i].lastName, grade |-> rows[i].grade,
         dismissal |-> rows[i].dismissal, activity |-> rows[i].activity,
         endsIn |-> rows[i].endsIn, elective |-> rows[i].elective,
         notes |-> rows[i].notes,
         name |-> rows[i].firstName \o <<" ">> \o rows[i].lastName]]

\* the loop over rows: add name, overwrite endsIn and elective
EndsInLoop(rows, day_name) ==
    [i \in 1..Len(rows) |->
        LET e == calc_ends_in(rows[i].grade, day_name)
        IN  [id |-> rows[i].id, firstName |-> rows[i].firstName,
             lastName |-> rows[i].lastName, grade |-> rows[i].grade,
             dismissal |-> rows[i].dismissal, activity |-> rows[i].activity,
             endsIn |-> e[1], elective |-> e[2], notes |-> rows[i].notes,
             name |-> rows[i].firstName \o <<" ">> \o rows[i].lastName]]

ServerError(op) == [op |-> op, status |-> 500, body |-> [error |-> "ValueError"]]
BadRequest(op, msg) == [op |-> op, status |-> 400, body |-> [error |-> msg]]
Ok(op, body) == [op |-> op, status |-> 200, body |-> body]

\* what get_dismissal_today answers when its COUNT returned filled and the
\* query of its branch then reads table t
ViewResponse(filled, t, dir, date_param, grade_filter) ==
    LET source == IF filled > 0 THEN "today" ELSE "default"
    IN  IF ~IsIsoDate(date_param)
        THEN ServerError("get_dismissal_today")   \* fromisoformat raises
        ELSE LET rows == IF source = "today"
                         THEN TodayRows(t, dir, date_param, grade_filter)
                         ELSE DefaultRows(dir, date_param, grade_filter)
                 day_name == DayName(date_param)
             IN  Ok("get_dismissal_today",
                    [date |-> date_param, source |-> source, day |-> day_name,
                     students |-> EndsInLoop(rows, day_name)])

\* a view whose COUNT only sees the records of the students it lists
DismissalTodayResponse_listedonly(t, dir, date_param, grade_filter) ==
    LET listed == {s.student_id : s \in ActiveStudents(dir, grade_filter)}
        mine == {r \in DOMAIN t : /\ r.dismissal_date = date_param
                                  /\ r.student_id \in listed}
    IN  ViewResponse(BagCardinality(Rows(t, mine)), t, dir, date_param,
                     grade_filter)

\* the response of GET /api/dismissal/today?date=..&grade=.. when no other
\* request runs between its two queries
DismissalTodayResponse(t, dir, date_param, grade_filter) ==
    ViewResponse(CountForDate(t, date_param), t, dir, date_param, grade_filter)

(***************************************************************************)
(* Request bodies.  A JSON object is a function; data.get(k, v) is Get.    *)
(***************************************************************************)
Get(data, k, default) == IF k \in DOMAIN data THEN data[k] ELSE default

\* `not x` for a text field that may be missing, null or ''
NoText(data, k) == k \notin DOMAIN data \/ data[k] \in {NULL, ""}

\* `not x` for student_id
NoId(data) == "student_id" \notin DOMAIN data \/ data.student_id = 0

GradeFilters == {NoneText, <<"6">>}

PlanData ==
    { [student_id |-> sid, dismissal_date |-> d, dismissal_type |-> "pickup",
       destination |-> "Front Door", notes |-> "late", is_override |-> 1]
        : sid \in StudentIds, d \in WriteDates }
    \cup
    { [student_id |-> sid, dismissal_date |-> d, dismissal_type |-> "bus"]
        : sid \in StudentIds, d \in WriteDates }
    \cup
    { [student_id |-> 1, dismissal_date |-> D_Tue] }

BulkData ==
    { [student_ids |-> ids, dismissal_date |-> d, dismissal_type |-> "activity",
       destination |-> "Chess"]
        : ids \in {<<2>>, <<1, 2>>, <<3, 3>>}, d \in WriteDates }
    \cup
    { [student_ids |-> <<>>, dismissal_date |-> D_Tue, dismissal_type |-> "bus"] }

LoadData ==
    { [date |-> d, day_key |-> k] : d \in WriteDates, k \in {"tue", "thu"} }
    \cup
    { [date |-> D_Tue, day_key |-> "sat"], [date |-> D_Tue] }

(***************************************************************************)
(* POST /api/dismissal/plan                                                *)
(***************************************************************************)
\* the row built without the payload's destination
PlanRow_nodestination(data) ==
    DismissalRow(data.student_id, data.dismissal_date, data.dismissal_type,
                 "", Get(data, "notes", ""), Get(data, "is_override", 0))

\* the values save_dismissal_plan binds to its statement
PlanRow(data) ==
    DismissalRow(data.student_id, data.dismissal_date, data.dismissal_type,
                 Get(data, "destination", ""), Get(data, "notes", ""),
                 Get(data, "is_override", 0))

save_dismissal_plan(data) ==
    /\ req' = [op |-> "save_dismissal_plan", data |-> data]
    /\ IF NoId(data) \/ "dismissal_date" \notin DOMAIN data
          \/ NoText(data, "dismissal_type")
       THEN /\ resp' = BadRequest("save_dismissal_plan", "Missing required fields")
            /\ sql_conflict' = FALSE
            /\ UNCHANGED daily_dismissal
       ELSE /\ daily_dismissal' = UpsertPlan(daily_dismissal, PlanRow(data))
            /\ sql_conflict' =
                 (Conflicting(daily_dismissal, data.student_id,
                              data.dismissal_date) # {})
            /\ resp' = Ok("save_dismissal_plan", [success |-> TRUE])
    /\ BagCardinality(daily_dismissal') <= MaxRows
    /\ UNCHANGED <<students, dismissal_today, electives>>

(***************************************************************************)
(* DELETE /api/dismissal/plan/<date>/<int:student_id>                      *)
(***************************************************************************)
delete_dismissal_plan(date, student_id) ==
    /\ req' = [op |-> "delete_dismissal_plan", date |-> date,
               student_id |-> student_id]
    /\ daily_dismissal' = DeletePlan(daily_dismissal, student_id, date)
    /\ sql_conflict' = FALSE
    /\ resp' = Ok("delete_dismissal_plan", [success |-> TRUE])
    /\ UNCHANGED <<students, dismissal_today, electives>>

(***************************************************************************)
(* POST /api/dismissal/plan/bulk                                           *)
(***************************************************************************)
\* for sid in student_ids: conn.execute(INSERT ... ON CONFLICT DO UPDATE)
RECURSIVE BulkLoop(_, _, _)
BulkLoop(t, ids, data) ==
    IF ids = <<>> THEN t
    ELSE BulkLoop(UpsertBulk(t, DismissalRow(Head(ids), data.dismissal_date,
                                             data.dismissal_type,
                                             Get(data, "destination", ""), "", 0)),
                  Tail(ids), data)

save_dismissal_bulk(data) ==
    /\ req' = [op |-> "save_dismissal_bulk", data |-> data]
    /\ IF Get(data, "student_ids", <<>>) = <<>>
          \/ "dismissal_date" \notin DOMAIN data
          \/ NoText(data, "dismissal_type")
       THEN /\ resp' = BadRequest("save_dismissal_bulk", "Missing required fields")
            /\ sql_conflict' = FALSE
            /\ UNCHANGED daily_dismissal
       ELSE /\ daily_dismissal' = BulkLoop(daily_dismissal, data.student_ids, data)
            /\ sql_conflict' =
                 (\E i \in 1..Len(data.student_ids) :
                     \/ Conflicting(daily_dismissal, data.student_ids[i],
                                    data.dismissal_date) # {}
                     \/ \E j \in 1..(i - 1) : data.student_ids[j] = data.student_ids[i])
            /\ resp' = Ok("save_dismissal_bulk",
                          [success |-> TRUE, updated |-> Len(data.student_ids)])
    /\ BagCardinality(daily_dismissal') <= MaxRows
    /\ UNCHANGED <<students, dismissal_today, electives>>

(***************************************************************************)
(* POST /api/dismissal/load-defaults                                       *)
(***************************************************************************)
valid_days == {"mon", "tue", "wed", "thu", "fri"}

DayKeyCol == [mon |-> "dismissal_mon", tue |-> "dismissal_tue",
              wed |-> "dismissal_wed", thu |-> "dismissal_thu",
              fri |-> "dismissal_fri"]

\* an `existing` set that is always empty: the membership test never skips
ExistingIds_none(t, date) == {}

\* existing = set(student_id of the rows of the date)
ExistingIds(t, date) ==
    {r.student_id : r \in {x \in DOMAIN t : x.dismissal_date = date}}

\* the query without the status filter
StudentsWithDefault_anystatus(dir, col) ==
    {s \in dir : s[col] # NULL /\ s[col] # ""}

\* SELECT student_id, {col} FROM students
\*  WHERE status = 'active' AND {col} IS NOT NULL AND {col} != ''
StudentsWithDefault(dir, col) ==
    {s \in dir : s.status = "active" /\ s[col] # NULL /\ s[col] # ""}

\* the row load_dismissal_defaults inserts for student s
DefaultPlanRow(s, col, date) ==
    DismissalRow(s.student_id, date, s[col],
                 IF s[col] = "activity" THEN "Aftercare" ELSE "", "", 0)

\* for s in students: if s not in existing: INSERT OR IGNORE; inserted += 1
\* the result is the table and the count
RECURSIVE LoadLoop(_, _, _, _, _, _)
LoadLoop(t, todo, existing, col, date, inserted) ==
    IF todo = {} THEN [table |-> t, inserted |-> inserted]
    ELSE LET s == CHOOSE x \in todo : \A y \in todo : x.student_id <= y.student_id
         IN  IF s.student_id \notin existing
             THEN LoadLoop(InsertOrIgnore(t, DefaultPlanRow(s, col, date)),
                           todo \ {s}, existing, col, date, inserted + 1)
             ELSE LoadLoop(t, todo \ {s}, existing, col, date, inserted)

\* the loop writing every default with the upsert of save_dismissal_plan
RECURSIVE ReplaceLoop(_, _, _, _, _)
ReplaceLoop(t, todo, col, date, inserted) ==
    IF todo = {} THEN [table |-> t, inserted |-> inserted]
    ELSE LET s == CHOOSE x \in todo : \A y \in todo : x.student_id <= y.student_id
         IN  ReplaceLoop(UpsertPlan(t, DefaultPlanRow(s, col, date)),
                         todo \ {s}, col, date, inserted + 1)

LoadDefaults_replace(t, dir, date, day_key) ==
    ReplaceLoop(t, StudentsWithDefault(dir, DayKeyCol[day_key]),
                DayKeyCol[day_key], date, 0)

\* the body of load_dismissal_defaults after validation
LoadDefaults(t, dir, date, day_key) ==
    LoadLoop(t, StudentsWithDefault(dir, DayKeyCol[day_key]),
             ExistingIds(t, date), DayKeyCol[day_key], date, 0)

load_dismissal_defaults(data) ==
    /\ req' = [op |-> "load_dismissal_defaults", data |-> data]
    /\ IF "date" \notin DOMAIN data \/ NoText(data, "day_key")
       THEN /\ resp' = BadRequest("load_dismissal_defaults", "Missing date or day_key")
            /\ sql_conflict' = FALSE
            /\ UNCHANGED daily_dismissal
       ELSE IF data.day_key \notin valid_days
       THEN /\ resp' = BadRequest("load_dismissal_defaults", "Invalid day")
            /\ sql_conflict' = FALSE
            /\ UNCHANGED daily_dismissal
       ELSE LET r == LoadDefaults(daily_dismissal, students, data.date, data.day_key)
            IN  /\ daily_dismissal' = r.table
                /\ sql_conflict' = FALSE
                /\ resp' = Ok("load_dismissal_defaults",
                              [success |-> TRUE, inserted |-> r.inserted])
    /\ BagCardinality(daily_dismissal') <= MaxRows
    /\ UNCHANGED <<students, dismissal_today, electives>>

(***************************************************************************)
(* GET /api/dismissal/today                                                *)
(***************************************************************************)
get_dismissal_today(date_param, grade_filter) ==
    /\ req' = [op |-> "get_dismissal_today", date |-> date_param,
               grade |-> grade_filter]
    /\ resp' = DismissalTodayResponse(daily_dismissal, students, date_param,
                                      grade_filter)
    /\ electives' = init_dismissal_tables(electives)
    /\ sql_conflict' = FALSE
    /\ UNCHANGED <<students, daily_dismissal, dismissal_today>>

(***************************************************************************)
(* POST /api/dismissal/today                                               *)
(***************************************************************************)
\* a JSON array or object in the place of a text value: sqlite3 cannot bind
\* it and conn.execute raises (InterfaceError / ProgrammingError)
JsonArray == "[json array]"

BoundKeys == {"bus_route", "activity", "ends_in", "elective_name", "notes"}

\* conn.execute raises for this record
BindFails(rec) == \E k \in BoundKeys : Get(rec, k, NULL) = JsonArray

\* the values save_dismissal_today binds to its statement
TodayRowOf(rec, plan_date) ==
    TodayRow(rec.student_id, plan_date, Get(rec, "bus_route", NULL),
             Get(rec, "activity", NULL), Get(rec, "ends_in", "homeroom"),
             Get(rec, "elective_name", NULL), Get(rec, "notes", ""))

MissingStudentId == <<"Missing student_id in record">>
StudentError(sid) == <<"Student ", sid, ": ", "Error binding parameter">>

\* a loop that gives up at the first record that fails
RECURSIVE BatchLoop_abort(_, _, _, _, _)
BatchLoop_abort(t, records, plan_date, saved, errors) ==
    IF records = <<>> THEN [table |-> t, saved |-> saved, errors |-> errors]
    ELSE LET rec == Head(records)
         IN  IF NoId(rec)
             THEN [table |-> t, saved |-> saved,
                   errors |-> Append(errors, MissingStudentId)]
             ELSE IF BindFails(rec)
             THEN [table |-> t, saved |-> saved,
                   errors |-> Append(errors, StudentError(rec.student_id))]
             ELSE BatchLoop_abort(UpsertToday(t, TodayRowOf(rec, plan_date)),
                                  Tail(records), plan_date, saved + 1, errors)

\* for rec in records: no sid -> error, continue; try: upsert, saved += 1;
\* except: error.  The result is the table, the count and the error list.
RECURSIVE BatchLoop(_, _, _, _, _)
BatchLoop(t, records, plan_date, saved, errors) ==
    IF records = <<>> THEN [table |-> t, saved |-> saved, errors |-> errors]
    ELSE LET rec == Head(records)
         IN  IF NoId(rec)
             THEN BatchLoop(t, Tail(records), plan_date, saved,
                            Append(errors, MissingStudentId))
             ELSE IF BindFails(rec)
             THEN BatchLoop(t, Tail(records), plan_date, saved,
                            Append(errors, StudentError(rec.student_id)))
             ELSE BatchLoop(UpsertToday(t, TodayRowOf(rec, plan_date)),
                            Tail(records), plan_date, saved + 1, errors)

\* now is the server's current date, datetime.now().strftime('%Y-%m-%d')
save_dismissal_today(data, now) ==
    /\ req' = [op |-> "save_dismissal_today", data |-> data, now |-> now]
    /\ electives' = init_dismissal_tables(electives)
    /\ LET plan_date == Get(data, "date", now)
           records == Get(data, "records", <<>>)
       IN  IF records = <<>>
           THEN /\ resp' = BadRequest("save_dismissal_today", "No records provided")
                /\ UNCHANGED dismissal_today
           ELSE LET r == BatchLoop(dismissal_today, records, plan_date, 0, <<>>)
                IN  /\ dismissal_today' = r.table
                    /\ resp' = Ok("save_dismissal_today",
                                  [success |-> TRUE, saved |-> r.saved,
                                   errors |-> r.errors])
    /\ sql_conflict' = FALSE
    /\ BagCardinality(dismissal_today') <= MaxRows
    /\ UNCHANGED <<students, daily_dismissal>>

(***************************************************************************)
(* DELETE /api/dismissal/today                                             *)
(***************************************************************************)
\* args is the query string; request.args.get('date') is None when absent
clear_dismissal_today(args) ==
    /\ req' = [op |-> "clear_dismissal_today", args |-> args]
    /\ electives' = init_dismissal_tables(electives)
    /\ IF "date" \notin DOMAIN args
       THEN /\ resp' = BadRequest("clear_dismissal_today", "date param required")
            /\ UNCHANGED dismissal_today
       ELSE /\ dismissal_today' = ClearToday(dismissal_today, args.date)
            /\ resp' = Ok("clear_dismissal_today",
                          [success |-> TRUE, cleared_date |-> args.date])
    /\ sql_conflict' = FALSE
    /\ UNCHANGED <<students, daily_dismissal>>

(***************************************************************************)
(* PUT /api/students/<int:student_id>                                      *)
(***************************************************************************)
\* UPDATE students SET first_name = ?, ..., dismissal_fri = ?
\*  WHERE student_id = ?        with data.get(k) for every column
UpdateStudent(dir, student_id, data) ==
    {IF s.student_id = student_id
     THEN StudentRow(s.student_id, data.first_name, data.last_name,
                     Get(data, "grade", NoneText), Get(data, "status", NULL),
                     Get(data, "dismissal_mon", NULL), Get(data, "dismissal_tue", NULL),
                     Get(data, "dismissal_wed", NULL), Get(data, "dismissal_thu", NULL),
                     Get(data, "dismissal_fri", NULL))
     ELSE s : s \in dir}

\* first_name and last_name are NOT NULL: without them the UPDATE of an
\* existing row raises IntegrityError and the request fails
update_student(student_id, data) ==
    /\ req' = [op |-> "update_student", student_id |-> student_id, data |-> data]
    /\ IF /\ \E s \in students : s.student_id = student_id
          /\ \/ "first_name" \notin DOMAIN data
             \/ "last_name" \notin DOMAIN data
       THEN /\ resp' = [op |-> "update_student", status |-> 500,
                        body |-> [error |-> "IntegrityError"]]
            /\ UNCHANGED students
       ELSE /\ students' = UpdateStudent(students, student_id, data)
            /\ resp' = Ok("update_student", [success |-> TRUE])
    /\ sql_conflict' = FALSE
    /\ UNCHANGED <<daily_dismissal, dismissal_today, electives>>

(***************************************************************************)
(* POST /backup/restore                                                    *)
(***************************************************************************)
BACKUP_PASSWORD == "school2026"

\* the uploaded file db replaces the live database; a table the file lacks
\* is an empty table once init_dismissal_tables has run
restore_backup(key, db) ==
    /\ req' = [op |-> "restore_backup", key |-> key, db |-> db]
    /\ IF key # BACKUP_PASSWORD
       THEN /\ resp' = [op |-> "restore_backup", status |-> 401,
                        body |-> [error |-> "Unauthorized - invalid key"]]
            /\ UNCHANGED <<students, daily_dismissal, dismissal_today, electives>>
       ELSE /\ students' = db.students
            /\ daily_dismissal' = db.daily_dismissal
            /\ dismissal_today' = db.dismissal_today
            /\ electives' = db.electives
            /\ resp' = Ok("restore_backup", [restored |-> TRUE])
    /\ sql_conflict' = FALSE

\* a client that has not logged in: session.get('user_email') is None
NoSession == [user_email |-> NULL]

(***************************************************************************)
(* GET /api/dismissal/buses                                                *)
(***************************************************************************)
\* the join without the test of the dismissal type
BusJoin_anytype(t, s, date) ==
    LET m == BagToSeq(Rows(t, {r \in Conflicting(t, s.student_id, date) :
                                  /\ r.destination # NULL
                                  /\ r.destination # ""}))
    IN  [i \in 1..Len(m) |->
            [student_id |-> s.student_id, first_name |-> s.first_name,
             last_name |-> s.last_name, grade |-> s.grade,
             bus_route |-> m[i].destination]]

\* students s JOIN daily_dismissal d ON d.student_id = s.student_id
\*   AND d.dismissal_date = ?  WHERE d.dismissal_type = 'bus'
\*   AND d.destination IS NOT NULL AND d.destination != ''
BusJoin(t, s, date) ==
    LET m == BagToSeq(Rows(t, {r \in Conflicting(t, s.student_id, date) :
                                  /\ r.dismissal_type = "bus"
                                  /\ r.destination # NULL
                                  /\ r.destination # ""}))
    IN  [i \in 1..Len(m) |->
            [student_id |-> s.student_id, first_name |-> s.first_name,
             last_name |-> s.last_name, grade |-> s.grade,
             bus_route |-> m[i].destination]]

\* the rows of the source = 'today' branch, by last name and first name
BusTodayRows(t, dir, date) ==
    LET ordered == OrderByName(ActiveStudents(dir, NoneText))
    IN  Flatten([i \in 1..Len(ordered) |-> BusJoin(t, ordered[i], date)])

\* the rows of the source = 'default' branch: WHERE status = 'active'
\*   AND {col} = 'bus' ORDER BY last_name, first_name
BusDefaultRows(dir, date) ==
    LET col == DefaultCol(DayName(date))
        ordered == OrderByName({s \in ActiveStudents(dir, NoneText) : s[col] = "bus"})
    IN  [i \in 1..Len(ordered) |->
            [student_id |-> ordered[i].student_id,
             first_name |-> ordered[i].first_name,
             last_name |-> ordered[i].last_name, grade |-> ordered[i].grade,
             bus_route |-> ordered[i][col]]]

\* homeroom_map.get(grade, dash): the teacher of the grade, or a dash
homeroom_map(grade) ==
    CASE grade = <<"J", "P", "K">> -> "Wipperman"
      [] grade = <<"S", "P", "K">> -> "Vorolieff"
      [] grade = <<"K">> -> "Olsen"
      [] grade = <<"1">> -> "Alfonso"
      [] grade = <<"2">> -> "Szeghy"
      [] grade = <<"3">> -> "Vales"
      [] grade = <<"4">> -> "Oxer / Donnelly"
      [] grade = <<"5">> -> "Tucci"
      [] grade = <<"6">> -> "Poon"
      [] grade = <<"7">> -> "Ballard"
      [] grade = <<"8">> -> "Duthie"
      [] OTHER -> "-"

\* the entries of the students list
BusStudents(rows, source) ==
    [i \in 1..Len(rows) |->
        [student_id |-> rows[i].student_id, first_name |-> rows[i].first_name,
         last_name |-> rows[i].last_name, grade |-> rows[i].grade,
         bus_route |-> IF source = "today" THEN rows[i].bus_route
                       ELSE "Default Bus",
         homeroom_teacher |-> homeroom_map(rows[i].grade)]]

\* the place of a route name in sorted() order, for the names that occur
RouteRank == ("Arlington" :> 1) @@ ("Chess" :> 2) @@ ("Default Bus" :> 3)
             @@ ("Front Door" :> 4) @@ ("POK" :> 5)

RECURSIVE SortedRoutes(_)
SortedRoutes(R) ==
    IF R = {} THEN <<>>
    ELSE LET m == CHOOSE x \in R : \A y \in R : RouteRank[x] <= RouteRank[y]
         IN  <<m>> \o SortedRoutes(R \ {m})

\* grouped[route].append(s), then one entry per route in sorted order
BusGroups(entries) ==
    LET routes == SortedRoutes({entries[i].bus_route : i \in 1..Len(entries)})
    IN  [k \in 1..Len(routes) |->
            LET OnRoute(e) == e.bus_route = routes[k]
                on == SelectSeq(entries, OnRoute)
            IN  [route |-> routes[k], students |-> on, count |-> Len(on)]]

\* the response of the handler body
BusDashboardResponse(t, dir, date_param) ==
    LET filled == CountForDate(t, date_param)
        source == IF filled > 0 THEN "today" ELSE "default"
    IN  IF source = "default" /\ ~IsIsoDate(date_param)
        THEN ServerError("get_bus_dashboard")     \* fromisoformat raises
        ELSE LET rows == IF source = "today"
                         THEN BusTodayRows(t, dir, date_param)
                         ELSE BusDefaultRows(dir, date_param)
             IN  Ok("get_bus_dashboard",
                    [buses |-> BusGroups(BusStudents(rows, source)),
                     source |-> source, date |-> date_param])

\* @login_required: without session['user_email'] the answer is a redirect
\* to /login and the handler does not run
get_bus_dashboard(date_param) ==
    /\ req' = [op |-> "get_bus_dashboard", date |-> date_param]
    /\ IF session.user_email = NULL
       THEN /\ resp' = [op |-> "get_bus_dashboard", status |-> 302,
                        body |-> [location |-> "/login"]]
            /\ UNCHANGED electives
       ELSE /\ resp' = BusDashboardResponse(daily_dismissal, students, date_param)
            /\ electives' = init_dismissal_tables(electives)
    /\ sql_conflict' = FALSE
    /\ UNCHANGED <<students, daily_dismissal, dismissal_today, procs, session>>

(***************************************************************************)
(* GET /auth/callback and GET /auth/logout                                 *)
(***************************************************************************)
SUPERADMIN_EMAIL == "ccuneo@mizzentop.org"

\* the addresses that end with '@mizzentop.org', and the active rows of staff
MizzentopEmails == {"ccuneo@mizzentop.org", "teacher@mizzentop.org",
                    "former@mizzentop.org"}
ActiveStaff == {"teacher@mizzentop.org"}

\* email is the address the identity provider returned for the caller
auth_callback(email) ==
    /\ req' = [op |-> "auth_callback", email |-> email]
    /\ IF email \notin MizzentopEmails
       THEN /\ resp' = [op |-> "auth_callback", status |-> 302,
                        body |-> [location |-> "/login?error=domain"]]
            /\ UNCHANGED session
       ELSE IF email \notin ActiveStaff /\ email # SUPERADMIN_EMAIL
       THEN /\ resp' = [op |-> "auth_callback", status |-> 302,
                        body |-> [location |-> "/login?error=notfound"]]
            /\ UNCHANGED session
       ELSE /\ session' = [user_email |-> email]
            /\ resp' = [op |-> "auth_callback", status |-> 302,
                        body |-> [location |-> "/"]]
    /\ sql_conflict' = FALSE
    /\ UNCHANGED <<students, daily_dismissal, dismissal_today, electives, procs>>

\* session.clear()
logout ==
    /\ req' = [op |-> "logout"]
    /\ session' = NoSession
    /\ resp' = [op |-> "logout", status |-> 302, body |-> [location |-> "/login"]]
    /\ sql_conflict' = FALSE
    /\ UNCHANGED <<students, daily_dismissal, dismissal_today, electives, procs>>

(***************************************************************************)
(* The application serving one request at a time.                          *)
(***************************************************************************)
NoRequest == [op |-> "none"]
NoResponse == [op |-> "none", status |-> 0, body |-> [none |-> TRUE]]

\* the requests that may be in progress at once
Procs == {1, 2}

\* no request is in progress
Idle == [pc |-> "idle"]
NoRequests == [p \in Procs |-> Idle]

\* a handler that runs alone, for a client whose session it leaves as it is
OneAtATime == UNCHANGED <<procs, session>>

Init ==
    /\ students \in Directories
    /\ daily_dismissal = EmptyBag
    /\ dismissal_today = EmptyBag
    /\ electives = init_dismissal_tables({})
    /\ sql_conflict = FALSE
    /\ req = NoRequest
    /\ resp = NoResponse
    /\ procs = NoRequests
    /\ session = NoSession

Next ==
    \/ \E data \in PlanData : save_dismissal_plan(data)
          /\ OneAtATime
    \/ \E d \in WriteDates, sid \in StudentIds : delete_dismissal_plan(d, sid)
          /\ OneAtATime
    \/ \E data \in BulkData : save_dismissal_bulk(data)
          /\ OneAtATime
    \/ \E data \in LoadData : load_dismissal_defaults(data)
          /\ OneAtATime
    \/ \E d \in ViewDates, g \in GradeFilters : get_dismissal_today(d, g)
          /\ OneAtATime

Spec == Init /\ [][Next]_vars

TypeOK ==
    /\ students \in Directories
    /\ \A r \in DOMAIN daily_dismissal :
          r.student_id \in StudentIds /\ r.dismissal_date \in WriteDates
    /\ sql_conflict \in BOOLEAN
    /\ resp.status \in {0, 200, 400, 500}

(***************************************************************************)
(* The planner's four write routes and the view, for one directory and a   *)
(* few requests each, one request at a time.                               *)
(***************************************************************************)
FewPlanData ==
    {data \in PlanData : "dismissal_type" \in DOMAIN data
                            => (data.student_id \in {1, 3}
                                /\ data.dismissal_type = "pickup")}

FewBulkData == {data \in BulkData : data.student_ids \in {<<>>, <<1, 2>>}}

FewLoadData == { [date |-> D_Tue, day_key |-> "tue"],
                 [date |-> D_Thu, day_key |-> "thu"] }

InitPlan ==
    /\ students = DirA
    /\ daily_dismissal = EmptyBag
    /\ dismissal_today = EmptyBag
    /\ electives = init_dismissal_tables({})
    /\ sql_conflict = FALSE
    /\ req = NoRequest
    /\ resp = NoResponse
    /\ procs = NoRequests
    /\ session = NoSession

NextPlan ==
    \/ \E data \in FewPlanData : save_dismissal_plan(data)
          /\ OneAtATime
    \/ \E d \in WriteDates, sid \in {1, 3} : delete_dismissal_plan(d, sid)
          /\ OneAtATime
    \/ \E data \in FewBulkData : save_dismissal_bulk(data)
          /\ OneAtATime
    \/ \E data \in FewLoadData : load_dismissal_defaults(data)
          /\ OneAtATime
    \/ \E d \in ViewDates, g \in GradeFilters : get_dismissal_today(d, g)
          /\ OneAtATime

SpecPlan == InitPlan /\ [][NextPlan]_vars

(***************************************************************************)
(* The batch routes of /api/dismissal/today next to the planner's single   *)
(* upsert and the view, one request at a time.                             *)
(***************************************************************************)
Rec1 == [student_id |-> 1, bus_route |-> "POK", activity |-> NULL,
         ends_in |-> "elective", elective_name |-> "Art", notes |-> "early"]
Rec1b == [student_id |-> 1, bus_route |-> "Arlington", notes |-> "changed"]
Rec2 == [student_id |-> 2, bus_route |-> "Pick Up"]
RecNoId == [bus_route |-> "POK"]
RecUnbound == [student_id |-> 2, bus_route |-> JsonArray]
Rec9 == [student_id |-> 9, bus_route |-> "POK"]     \* no student has id 9

Batches == {<<Rec1>>, <<RecNoId, Rec2>>, <<Rec1, RecUnbound, Rec1b>>,
            <<RecNoId>>, <<Rec9>>}

BatchData ==
    { [date |-> d, records |-> b] : d \in WriteDates, b \in Batches }
    \cup
    { [records |-> <<Rec2>>],                    \* no date
      [date |-> D_Tue],                          \* no records
      [date |-> D_Tue, records |-> <<>>] }

ServerDays == {D_Tue, D_Thu}

ClearArgs == { [date |-> d] : d \in WriteDates } \cup { <<>> }

BatchPlanData ==
    { [student_id |-> 2, dismissal_date |-> d, dismissal_type |-> "bus"]
        : d \in WriteDates }

InitBatch ==
    /\ students = DirA
    /\ daily_dismissal = EmptyBag
    /\ dismissal_today = EmptyBag
    /\ electives = init_dismissal_tables({})
    /\ sql_conflict = FALSE
    /\ req = NoRequest
    /\ resp = NoResponse
    /\ procs = NoRequests
    /\ session = NoSession

NextBatch ==
    \/ \E data \in BatchData, now \in ServerDays : save_dismissal_today(data, now)
          /\ OneAtATime
    \/ \E args \in ClearArgs : clear_dismissal_today(args)
          /\ OneAtATime
    \/ \E data \in BatchPlanData : save_dismissal_plan(data)
          /\ OneAtATime
    \/ \E d \in WriteDates, g \in GradeFilters : get_dismissal_today(d, g)
          /\ OneAtATime

SpecBatch == InitBatch /\ [][NextBatch]_vars

(***************************************************************************)
(* The planner next to the directory editor and the database restore, with *)
(* requests that name an unknown student, an unknown dismissal type or a   *)
(* date that is no calendar day.                                           *)
(***************************************************************************)
AdminPlanData ==
    { [student_id |-> 9, dismissal_date |-> D_Tue, dismissal_type |-> "bus"],
      [student_id |-> 1, dismissal_date |-> D_Bad, dismissal_type |-> "pickup"],
      [student_id |-> 1, dismissal_date |-> D_Tue, dismissal_type |-> "walker"] }

\* profile edits: a default outside the three types; a student made inactive;
\* a name that shares the last name of another; a payload without names
ProfileData ==
    { [first_name |-> <<"A", "d">>, last_name |-> <<"C", "a">>, grade |-> <<"2">>,
       status |-> "active", dismissal_mon |-> "bus", dismissal_tue |-> "walker",
       dismissal_thu |-> "Pick Up"],
      [first_name |-> <<"B", "o">>, last_name |-> <<"B", "a">>, grade |-> <<"6">>,
       status |-> "inactive", dismissal_tue |-> "activity"],
      [first_name |-> <<"A", "b">>, last_name |-> <<"C", "a">>, grade |-> <<"6">>,
       status |-> "active", dismissal_tue |-> "bus"],
      [grade |-> <<"2">>, status |-> "active"] }

\* database files: one from before the dismissal tables existed, one with
\* a custom elective catalog and a stored plan
Backups ==
    { [students |-> DirA, daily_dismissal |-> EmptyBag,
       dismissal_today |-> EmptyBag, electives |-> {}],
      [students |-> DirB,
       daily_dismissal |-> SetToBag({DismissalRow(1, D_Tue, "bus", "POK", "", 0)}),
       dismissal_today |-> EmptyBag, electives |-> {"Art", "Chess"}] }

AdminViewDates == {D_Tue, D_Bad}

InitAdmin ==
    /\ students = DirA
    /\ daily_dismissal = EmptyBag
    /\ dismissal_today = EmptyBag
    /\ electives = init_dismissal_tables({})
    /\ sql_conflict = FALSE
    /\ req = NoRequest
    /\ resp = NoResponse
    /\ procs = NoRequests
    /\ session = NoSession

NextAdmin ==
    \/ \E data \in AdminPlanData : save_dismissal_plan(data)
          /\ OneAtATime
    \/ \E sid \in {1, 2, 9}, data \in ProfileData : update_student(sid, data)
          /\ OneAtATime
    \/ \E key \in {BACKUP_PASSWORD, ""}, db \in Backups : restore_backup(key, db)
          /\ OneAtATime
    \/ \E d \in AdminViewDates, g \in GradeFilters : get_dismissal_today(d, g)
          /\ OneAtATime

SpecAdmin == InitAdmin /\ [][NextAdmin]_vars

(***************************************************************************)
(* calc_ends_in on its own: every grade text of at most MaxLen characters  *)
(* and every weekday name.                                                 *)
(***************************************************************************)
GradeAlphabet == {" ", "\t", "1", "4", "5", "8", "9", "K"}

GradeTexts == UNION {[1..n -> GradeAlphabet] : n \in 0..MaxLen} \cup {NoneText}

InitEndsIn ==
    /\ students = DirA
    /\ daily_dismissal = EmptyBag
    /\ dismissal_today = EmptyBag
    /\ electives = init_dismissal_tables({})
    /\ sql_conflict = FALSE
    /\ req \in {[op |-> "calc_ends_in", grade |-> g, day_name |-> DayNames[i]]
                  : g \in GradeTexts, i \in 1..Len(DayNames)}
    /\ resp = NoResponse
    /\ procs = NoRequests
    /\ session = NoSession

CalcEndsIn ==
    /\ req.op = "calc_ends_in"
    /\ resp = NoResponse
    /\ resp' = LET e == calc_ends_in(req.grade, req.day_name)
               IN  Ok("calc_ends_in", [endsIn |-> e[1], elective |-> e[2]])
    /\ UNCHANGED <<students, daily_dismissal, dismissal_today, electives,
                   sql_conflict, req>>

NextEndsIn == CalcEndsIn /\ OneAtATime

SpecEndsIn == InitEndsIn /\ [][NextEndsIn]_vars

(***************************************************************************)
(* The rule table of the ends-in evaluator, as the specification states    *)
(* it.  A grade is in a school when, whitespace aside, it is one of the    *)
(* school's grade digits.                                                  *)
(***************************************************************************)
IsInk(c) == c \notin Whitespace

GradeIn(grade, digits) ==
    /\ grade # NoneText
    /\ \E c \in digits : SelectSeq(grade, IsInk) = <<c>>

RuleTable(grade, day_name) ==
    CASE GradeIn(grade, {"1", "2", "3", "4"}) /\ day_name = "Tuesday"
            -> [endsIn |-> "elective", elective |-> "Elective"]
      [] GradeIn(grade, {"5", "6", "7", "8"}) /\ day_name = "Tuesday"
            -> [endsIn |-> "elective", elective |-> "Advisory"]
      [] GradeIn(grade, {"5", "6", "7", "8"}) /\ day_name = "Thursday"
            -> [endsIn |-> "elective", elective |-> "Elective"]
      [] OTHER -> [endsIn |-> "homeroom", elective |-> NULL]

ViewedDate ==
    /\ req.op = "get_dismissal_today"
    /\ IsIsoDate(req.date)

\* the students a view lists: active, and in the filter's grade if one is given
Listed(grade_filter) ==
    {s \in students :
        /\ s.status = "active"
        /\ (grade_filter \in {NoneText, <<>>} \/ s.grade = grade_filter)}

\* the rows of a response that belong to student s
RowsOf(body, s) ==
    {i \in 1..Len(body.students) : body.students[i].id = s.student_id}

\* the Default Resolver of the specification: the weekday's stored default,
\* nothing on Saturday and Sunday
ResolverOutput(s, date) ==
    CASE DayName(date) = "Monday" -> s.dismissal_mon
      [] DayName(date) = "Tuesday" -> s.dismissal_tue
      [] DayName(date) = "Wednesday" -> s.dismissal_wed
      [] DayName(date) = "Thursday" -> s.dismissal_thu
      [] DayName(date) = "Friday" -> s.dismissal_fri
      [] OTHER -> NULL

HasRecord(s, date) == Conflicting(daily_dismissal, s.student_id, date) # {}

\* C1: a view of a date without any daily_dismissal record has source
\* "default" and shows every listed student with the Default Resolver's
\* output for the date's weekday (the stored default of that weekday, or
\* nothing), with activity and notes null.
C1_DefaultBranch ==
    (ViewedDate /\ CountForDate(daily_dismissal, req.date) = 0) =>
        /\ resp.status = 200
        /\ resp.body.source = "default"
        /\ \A s \in Listed(req.grade) :
              /\ RowsOf(resp.body, s) # {}
              /\ \A i \in RowsOf(resp.body, s) :
                    /\ resp.body.students[i].dismissal = ResolverOutput(s, req.date)
                    /\ resp.body.students[i].activity = NULL
                    /\ resp.body.students[i].notes = NULL

\* C2: a view of a date with at least one daily_dismissal record has source
\* "today", and every listed student without a record for the date appears
\* exactly once, with dismissal, activity and notes null.
C2_TodayBranch ==
    (ViewedDate /\ CountForDate(daily_dismissal, req.date) > 0) =>
        /\ resp.status = 200
        /\ resp.body.source = "today"
        /\ \A s \in Listed(req.grade) :
              ~HasRecord(s, req.date) =>
                 /\ Cardinality(RowsOf(resp.body, s)) = 1
                 /\ \A i \in RowsOf(resp.body, s) :
                       /\ resp.body.students[i].dismissal = NULL
                       /\ resp.body.students[i].activity = NULL
                       /\ resp.body.students[i].notes = NULL

\* C2 witness: a "today" view lists a student without a record as null
\* although the student has a default for that weekday.
C2_Witness ==
    /\ ViewedDate
    /\ resp.status = 200
    /\ resp.body.source = "today"
    /\ \E s \in Listed(req.grade) :
          /\ ~HasRecord(s, req.date)
          /\ ResolverOutput(s, req.date) \notin {NULL, ""}
          /\ \E i \in RowsOf(resp.body, s) : resp.body.students[i].dismissal = NULL

\* C5: in every view, each student's endsIn and elective are the rule
\* table's for the student's grade and the weekday of the date, whatever
\* the branch, the dismissal type and the stored records.
C5_EndsInEverywhere ==
    (ViewedDate /\ resp.status = 200) =>
        \A s \in students :
           \A i \in RowsOf(resp.body, s) :
              /\ resp.body.students[i].endsIn = RuleTable(s.grade, DayName(req.date)).endsIn
              /\ resp.body.students[i].elective = RuleTable(s.grade, DayName(req.date)).elective

\* C5 witness: a "today" view shows a student who has a record and ends the
\* day in an elective.
C5_Witness ==
    /\ ViewedDate
    /\ resp.status = 200
    /\ resp.body.source = "today"
    /\ \E i \in 1..Len(resp.body.students) :
          /\ resp.body.students[i].dismissal # NULL
          /\ resp.body.students[i].endsIn = "elective"

(***************************************************************************)
(* Claims about the plan store.                                            *)
(***************************************************************************)
\* the last request was a save_dismissal_plan that was carried out
SavedPlan ==
    /\ req.op = "save_dismissal_plan"
    /\ resp.status = 200

\* the rows stored for (sid, date), with their multiplicity
Stored(sid, date) ==
    Rows(daily_dismissal,
         {r \in DOMAIN daily_dismissal :
             r.student_id = sid /\ r.dismissal_date = date})

\* request q addresses the record of (sid, date)
Touches(q, sid, date) ==
    \/ /\ q.op = "save_dismissal_plan"
       /\ "student_id" \in DOMAIN q.data /\ "dismissal_date" \in DOMAIN q.data
       /\ q.data.student_id = sid /\ q.data.dismissal_date = date
    \/ /\ q.op = "delete_dismissal_plan"
       /\ q.student_id = sid /\ q.date = date
    \/ /\ q.op = "save_dismissal_bulk"
       /\ "dismissal_date" \in DOMAIN q.data /\ q.data.dismissal_date = date
       /\ \E i \in 1..Len(q.data.student_ids) : q.data.student_ids[i] = sid

\* right after save_dismissal_plan the store holds the payload for the pair
C3_SaveStores ==
    SavedPlan =>
        \E r \in DOMAIN Stored(req.data.student_id, req.data.dismissal_date) :
           /\ r.dismissal_type = req.data.dismissal_type
           /\ r.destination = Get(req.data, "destination", "")
           /\ r.notes = Get(req.data, "notes", "")

\* a view of a date shows a listed student's record as stored, and shows
\* null for a listed student without one when the date has records
C3_ViewShowsStore ==
    (ViewedDate /\ CountForDate(daily_dismissal, req.date) > 0) =>
        /\ resp.status = 200
        /\ resp.body.source = "today"
        /\ \A s \in Listed(req.grade) :
              /\ RowsOf(resp.body, s) # {}
              /\ \A i \in RowsOf(resp.body, s) :
                   IF HasRecord(s, req.date)
                   THEN \E r \in DOMAIN Stored(s.student_id, req.date) :
                           /\ resp.body.students[i].dismissal = r.dismissal_type
                           /\ resp.body.students[i].activity = r.destination
                           /\ resp.body.students[i].notes = r.notes
                   ELSE /\ resp.body.students[i].dismissal = NULL
                        /\ resp.body.students[i].activity = NULL

\* a request that does not address a record's pair leaves the record as it is
C3_UntouchedKept ==
    \A r \in DOMAIN daily_dismissal :
        ~Touches(req', r.student_id, r.dismissal_date) =>
            /\ Stored(r.student_id, r.dismissal_date)'
                 = Stored(r.student_id, r.dismissal_date)

\* C3: read-your-write.  save_dismissal_plan stores its payload for (X, D);
\* until a write addresses (X, D) the record stays; and every view of D has
\* source "today", shows X (when listed) with the stored type, destination
\* and notes, and shows the listed students without a record for D as null.
C3_ReadYourWrite ==
    /\ [](C3_SaveStores /\ C3_ViewShowsStore)
    /\ [][C3_UntouchedKept]_vars

\* C3 witness: a view shows the saved plan of one student ("pickup" at
\* "Front Door") next to a null entry for another student who has a default
\* for that weekday.
C3_Witness ==
    /\ ViewedDate
    /\ resp.status = 200
    /\ resp.body.source = "today"
    /\ \E i, j \in 1..Len(resp.body.students) :
          /\ resp.body.students[i].dismissal = "pickup"
          /\ resp.body.students[i].activity = "Front Door"
          /\ resp.body.students[i].notes = "late"
          /\ resp.body.students[j].dismissal = NULL
          /\ \E s \in students :
                /\ s.student_id = resp.body.students[j].id
                /\ ResolverOutput(s, req.date) \notin {NULL, ""}

\* C6: the daily_dismissal table never holds two records of one
\* (student_id, dismissal_date) pair.
C6_OneRecordPerPair ==
    \A r \in DOMAIN daily_dismissal :
        BagCardinality(Stored(r.student_id, r.dismissal_date)) = 1

\* C6 witness: a write met an existing record of its pair, and the table
\* holds records of two pairs.
C6_Witness ==
    /\ sql_conflict
    /\ resp.status = 200
    /\ Cardinality(DOMAIN daily_dismissal) = 2

\* C7: save_dismissal_plan on a pair that already has a record leaves
\* exactly one record of the pair, holding the type, destination, notes and
\* override flag of the new payload (omitted fields: '', '', 0).
C7_UpsertOverwrites ==
    (SavedPlan /\ sql_conflict) =>
        Stored(req.data.student_id, req.data.dismissal_date)
          = SetToBag({ [student_id |-> req.data.student_id,
                        dismissal_date |-> req.data.dismissal_date,
                        dismissal_type |-> req.data.dismissal_type,
                        destination |-> IF "destination" \in DOMAIN req.data
                                        THEN req.data.destination ELSE "",
                        notes |-> IF "notes" \in DOMAIN req.data
                                  THEN req.data.notes ELSE "",
                        is_override |-> IF "is_override" \in DOMAIN req.data
                                        THEN req.data.is_override ELSE 0] })

\* C7 witness: a payload without destination, notes and override flag was
\* saved over an existing record of its pair.
C7_Witness ==
    /\ SavedPlan
    /\ sql_conflict
    /\ DOMAIN req.data = {"student_id", "dismissal_date", "dismissal_type"}

(***************************************************************************)
(* Claims about load_dismissal_defaults.                                   *)
(***************************************************************************)
\* the last request was a load_dismissal_defaults that was carried out
LoadedDefaults ==
    /\ req.op = "load_dismissal_defaults"
    /\ resp.status = 200

\* the student's default in the column the day key names
KeyDefault(s, day_key) ==
    CASE day_key = "mon" -> s.dismissal_mon
      [] day_key = "tue" -> s.dismissal_tue
      [] day_key = "wed" -> s.dismissal_wed
      [] day_key = "thu" -> s.dismissal_thu
      [] day_key = "fri" -> s.dismissal_fri

\* the records the specification has the population insert for (date, day_key)
ExpectedInserts(date, day_key) ==
    { [student_id |-> s.student_id, dismissal_date |-> date,
       dismissal_type |-> KeyDefault(s, day_key),
       destination |-> IF KeyDefault(s, day_key) = "activity" THEN "Aftercare" ELSE "",
       notes |-> "", is_override |-> 0]
        : s \in {x \in students : /\ x.status = "active"
                                  /\ KeyDefault(x, day_key) \notin {NULL, ""}
                                  /\ ~HasRecord(x, date)} }

\* C8: load_dismissal_defaults for date D leaves every record that existed
\* before the call as it was, on D and on every other date; what it adds
\* are records of D for students that had none.
C8_LoadKeepsRecords ==
    [][ req'.op = "load_dismissal_defaults" =>
          /\ \A r \in DOMAIN daily_dismissal :
                /\ r \in DOMAIN daily_dismissal'
                /\ daily_dismissal'[r] = daily_dismissal[r]
          /\ \A r \in DOMAIN daily_dismissal' :
                r \notin DOMAIN daily_dismissal =>
                   /\ r.dismissal_date = req'.data.date
                   /\ Conflicting(daily_dismissal, r.student_id, r.dismissal_date) = {}
      ]_vars

\* C8 witness: a population added a record to a date that already held a
\* manual entry (override flag 1), which is still there.
C8_Witness ==
    /\ LoadedDefaults
    /\ resp.body.inserted >= 1
    /\ \E r \in DOMAIN daily_dismissal :
          r.dismissal_date = req.data.date /\ r.is_override = 1
    /\ \E r \in DOMAIN daily_dismissal :
          r.dismissal_date = req.data.date /\ r.is_override = 0

\* C9: in the state a load_dismissal_defaults has left, running it again
\* with the same date and day key leaves the table exactly as it is (no
\* record added, none overwritten) and reports inserted = 0.
C9_LoadIdempotent ==
    LoadedDefaults =>
        LET again == LoadDefaults(daily_dismissal, students,
                                  req.data.date, req.data.day_key)
        IN  /\ again.table = daily_dismissal
            /\ again.inserted = 0

\* C9 witness: a population has inserted two records, one of them an
\* "activity" default stored with "Aftercare".
C9_Witness ==
    /\ LoadedDefaults
    /\ resp.body.inserted = 2
    /\ \E s \in students :
          /\ s.status = "active"
          /\ KeyDefault(s, req.data.day_key) = "activity"
          /\ [student_id |-> s.student_id, dismissal_date |-> req.data.date,
              dismissal_type |-> "activity", destination |-> "Aftercare",
              notes |-> "", is_override |-> 0] \in DOMAIN daily_dismissal

\* C10: load_dismissal_defaults(date, day_key) adds exactly one record for
\* each active student with a non-null, non-empty default in the day key's
\* column and no record for the date, with the default as type, "Aftercare"
\* as destination of an "activity" and '' otherwise, empty notes and
\* override flag 0; it adds nothing else.
C10_LoadInsertsExactly ==
    [][ (req'.op = "load_dismissal_defaults" /\ resp'.status = 200) =>
          daily_dismissal' =
             daily_dismissal (+) SetToBag(ExpectedInserts(req'.data.date, req'.data.day_key))
      ]_vars

\* C10 witness: a population stored an "Aftercare" record while a student
\* who is not active or has no default in the column stays without a record.
C10_Witness ==
    /\ LoadedDefaults
    /\ resp.body.inserted >= 1
    /\ \E r \in DOMAIN daily_dismissal :
          /\ r.dismissal_date = req.data.date
          /\ r.destination = "Aftercare"
    /\ \E s \in students :
          /\ ~HasRecord(s, req.data.date)
          /\ \/ s.status # "active" /\ KeyDefault(s, req.data.day_key) \notin {NULL, ""}
             \/ s.status = "active" /\ KeyDefault(s, req.data.day_key) \in {NULL, ""}

(***************************************************************************)
(* Claims about the batch routes of /api/dismissal/today.                  *)
(***************************************************************************)
\* the last request was a batch save that went through its loop
BatchSaved ==
    /\ req.op = "save_dismissal_today"
    /\ resp.status = 200

\* the date a batch save writes under
BatchDate == Get(req.data, "date", req.now)

\* a record of a batch fails: it names no student, or the store refuses it
Fails(rec) ==
    \/ "student_id" \notin DOMAIN rec
    \/ rec.student_id = 0
    \/ \E k \in DOMAIN rec : k # "student_id" /\ rec[k] = JsonArray

\* the positions of the records of a batch that do not fail
Passing(records) == {i \in 1..Len(records) : ~Fails(records[i])}

\* the assignment record rec asks for, absent fields at their defaults
Asked(rec, date) ==
    [student_id |-> rec.student_id, plan_date |-> date,
     bus_route |-> Get(rec, "bus_route", NULL),
     activity |-> Get(rec, "activity", NULL),
     ends_in |-> Get(rec, "ends_in", "homeroom"),
     elective_name |-> Get(rec, "elective_name", NULL),
     notes |-> Get(rec, "notes", "")]

C12_BatchSaveFeedsView ==
    (ViewedDate /\ resp.status = 200) =>
        \A r \in DOMAIN dismissal_today :
           \A s \in Listed(req.grade) :
              (r.student_id = s.student_id /\ r.plan_date = req.date) =>
                  /\ resp.body.source = "today"
                  /\ \E i \in RowsOf(resp.body, s) :
                        /\ resp.body.students[i].activity = r.activity
                        /\ resp.body.students[i].notes = r.notes

\* C13: after a successful clear for date D the plan store holds no record
\* for D, so the view of D has source "default".
C13_ClearEmptiesPlanStore ==
    (req.op = "clear_dismissal_today" /\ resp.status = 200) =>
        /\ CountForDate(daily_dismissal, req.args.date) = 0
        /\ DismissalTodayResponse(daily_dismissal, students, req.args.date,
                                  NoneText).body.source = "default"

\* a write request without one of its required fields
LacksRequired(q) ==
    \/ /\ q.op = "save_dismissal_plan"
       /\ \/ NoId(q.data)
          \/ "dismissal_date" \notin DOMAIN q.data
          \/ NoText(q.data, "dismissal_type")
    \/ /\ q.op = "save_dismissal_bulk"
       /\ \/ Get(q.data, "student_ids", <<>>) = <<>>
          \/ "dismissal_date" \notin DOMAIN q.data
          \/ NoText(q.data, "dismissal_type")
    \/ /\ q.op = "load_dismissal_defaults"
       /\ \/ "date" \notin DOMAIN q.data
          \/ NoText(q.data, "day_key")
          \/ q.data.day_key \notin {"mon", "tue", "wed", "thu", "fri"}
    \/ /\ q.op = "save_dismissal_today"
       /\ \/ "date" \notin DOMAIN q.data
          \/ Get(q.data, "records", <<>>) = <<>>

\* C16: a write request that lacks a required field is answered with an
\* error and leaves both dismissal tables as they were.
C16_MissingFieldRejected ==
    [][LacksRequired(req') =>
          /\ resp'.status = 400
          /\ daily_dismissal' = daily_dismissal
          /\ dismissal_today' = dismissal_today]_vars

(***************************************************************************)
(* Claims about the view's inputs and its student list.                    *)
(***************************************************************************)
\* C14: a view of a Saturday or Sunday without plan records gives every
\* student no dismissal, never the value of a weekday default column.
C14_WeekendNoDefault ==
    (/\ ViewedDate
     /\ resp.status = 200
     /\ DayName(req.date) \in {"Saturday", "Sunday"}
     /\ CountForDate(daily_dismissal, req.date) = 0) =>
        \A i \in 1..Len(resp.body.students) :
           resp.body.students[i].dismissal \in {NULL, ""}

\* C18: in both branches the student list of a view has exactly one entry
\* for each active student (of the filter's grade when a filter is given)
\* and none for anybody else; a filter that matches nobody gives an empty
\* list, not an error.
C18_ExactlyTheActive ==
    ViewedDate =>
        /\ resp.status = 200
        /\ \A s \in students :
              Cardinality(RowsOf(resp.body, s)) =
                  IF s \in Listed(req.grade) THEN 1 ELSE 0
        /\ \A i \in 1..Len(resp.body.students) :
              \E s \in students : s.student_id = resp.body.students[i].id

\* C18 witness: with records stored for the date, a view filtered by a grade
\* that only a guest student has returned an empty list.
C18_Witness ==
    /\ ViewedDate
    /\ resp.status = 200
    /\ resp.body.source = "today"
    /\ req.grade = <<"6">>
    /\ \E s \in students : s.grade = req.grade /\ s.status = "guest"
    /\ resp.body.students = <<>>

\* the SELECT statements on the store that get_dismissal_today has executed
\* when it answers: the COUNT, then the query of its branch unless
\* fromisoformat raised before it
StoreQueries(t, date_param) ==
    IF CountForDate(t, date_param) > 0 THEN 2
    ELSE IF IsIsoDate(date_param) THEN 2 ELSE 1

\* C15: a view of a date that cannot be parsed is rejected as a caller
\* error before any query on the store, whether or not records are stored
\* under that date text.
C15_BadDateRejectedFirst ==
    (req.op = "get_dismissal_today" /\ ~IsIsoDate(req.date)) =>
        /\ resp.status \in 400..499
        /\ StoreQueries(daily_dismissal, req.date) = 0

\* C17: no stored dismissal record, in either table, names a student_id that
\* no row of students has.
C17_RecordsNameStudents ==
    \A r \in DOMAIN daily_dismissal \cup DOMAIN dismissal_today :
       \E s \in students : s.student_id = r.student_id

\* C19: every dismissal value a view returns is pickup, bus, activity or
\* absent.
C19_DismissalTypesClosed ==
    (ViewedDate /\ resp.status = 200) =>
        \A i \in 1..Len(resp.body.students) :
           resp.body.students[i].dismissal \in {"pickup", "bus", "activity", NULL, ""}

\* C20: a view changes no table: students, both dismissal tables and the
\* elective catalog are after the call what they were before it.
C20_ViewReadOnly ==
    [][req'.op = "get_dismissal_today" =>
          /\ students' = students
          /\ daily_dismissal' = daily_dismissal
          /\ dismissal_today' = dismissal_today
          /\ electives' = electives]_vars

(***************************************************************************)
(* Claims about what a plan write touches.                                 *)
(***************************************************************************)
PlanWrites == {"save_dismissal_plan", "save_dismissal_bulk",
               "load_dismissal_defaults", "delete_dismissal_plan"}

\* the dates a plan write request names (none when the field is missing)
DatesOf(q) ==
    IF q.op \in {"save_dismissal_plan", "save_dismissal_bulk"}
    THEN (IF "dismissal_date" \in DOMAIN q.data THEN {q.data.dismissal_date} ELSE {})
    ELSE IF q.op = "load_dismissal_defaults"
    THEN (IF "date" \in DOMAIN q.data THEN {q.data.date} ELSE {})
    ELSE IF q.op = "delete_dismissal_plan" THEN {q.date}
    ELSE {}

\* C21: a plan write for one date leaves the view of every other date, for
\* every grade filter, exactly as it was, source tag included.
C21_OtherDatesUntouched ==
    [][req'.op \in PlanWrites =>
          \A d2 \in ViewDates \ DatesOf(req') :
             \A g \in GradeFilters :
                DismissalTodayResponse(daily_dismissal', students', d2, g)
                    = DismissalTodayResponse(daily_dismissal, students, d2, g)]_vars

\* C21 witness: a student's Tuesday record was deleted while the same
\* student keeps a record for Thursday.
C21_Witness ==
    /\ req.op = "delete_dismissal_plan"
    /\ req.date = D_Tue
    /\ \E r \in DOMAIN daily_dismissal :
          r.student_id = req.student_id /\ r.dismissal_date = D_Thu

\* C27: a bulk assignment overwrites, for a listed student who has a record
\* for the date, the type and destination only (notes and override flag
\* stay); for a listed student without one it inserts a record with empty
\* notes and override flag 0; a student listed twice still has one record;
\* the records of the students not listed stay; 'updated' is the length of
\* the id list.
C27_BulkFrame ==
    [][(req'.op = "save_dismissal_bulk" /\ resp'.status = 200) =>
          LET data == req'.data
              ids == {data.student_ids[i] : i \in 1..Len(data.student_ids)}
          IN  /\ resp'.body.updated = Len(data.student_ids)
              /\ \A sid \in ids :
                    LET olds == Conflicting(daily_dismissal, sid, data.dismissal_date)
                        news == Conflicting(daily_dismissal', sid, data.dismissal_date)
                    IN  /\ Cardinality(news) = 1
                        /\ \A new \in news :
                              /\ daily_dismissal'[new] = 1
                              /\ new.dismissal_type = data.dismissal_type
                              /\ new.destination = Get(data, "destination", "")
                              /\ olds = {} => new.notes = "" /\ new.is_override = 0
                              /\ \A old \in olds :
                                    /\ new.notes = old.notes
                                    /\ new.is_override = old.is_override
              /\ \A r \in DOMAIN daily_dismissal :
                    (r.student_id \notin ids \/ r.dismissal_date # data.dismissal_date)
                        => /\ r \in DOMAIN daily_dismissal'
                           /\ daily_dismissal'[r] = daily_dismissal[r]]_vars

\* C27 witness: a bulk assignment went over a record that carries notes and
\* the override flag, and both are still there under the new type.
C27_Witness ==
    /\ req.op = "save_dismissal_bulk"
    /\ resp.status = 200
    /\ sql_conflict
    /\ \E r \in DOMAIN daily_dismissal :
          /\ r.dismissal_date = req.data.dismissal_date
          /\ r.dismissal_type = req.data.dismissal_type
          /\ r.destination = req.data.destination
          /\ r.notes = "late"
          /\ r.is_override = 1

\* C28: the source tag of a view depends only on whether the date has any
\* record at all: it is "today" exactly then, the same for every grade
\* filter, even when the only records belong to students the view does not
\* list, and then every listed student without a record is returned with no
\* dismissal.
C28_SourceFromAnyRecord ==
    (ViewedDate /\ resp.status = 200) =>
        LET any == \E r \in DOMAIN daily_dismissal : r.dismissal_date = req.date
        IN  /\ resp.body.source = IF any THEN "today" ELSE "default"
            /\ \A g \in GradeFilters :
                  DismissalTodayResponse(daily_dismissal, students, req.date,
                                         g).body.source = resp.body.source
            /\ any => \A s \in Listed(req.grade) :
                         ~HasRecord(s, req.date) =>
                            \A i \in RowsOf(resp.body, s) :
                               resp.body.students[i].dismissal = NULL

\* C28 witness: the only record of the date belongs to an inactive student;
\* the view has source "today" and lists a student who has a default for
\* that weekday with no dismissal.
C28_Witness ==
    /\ ViewedDate
    /\ resp.status = 200
    /\ resp.body.source = "today"
    /\ \A r \in DOMAIN daily_dismissal :
          r.dismissal_date = req.date =>
             \E s \in students : s.student_id = r.student_id /\ s.status = "inactive"
    /\ \E s \in Listed(req.grade) :
          /\ ResolverOutput(s, req.date) \notin {NULL, ""}
          /\ \A i \in RowsOf(resp.body, s) : resp.body.students[i].dismissal = NULL

\* a sorts no later than b by last name, then first name, comparing the
\* texts character by character
NameOrdered(a, b) ==
    \/ TextLess(a.lastName, b.lastName)
    \/ /\ a.lastName = b.lastName
       /\ \/ a.firstName = b.firstName
          \/ TextLess(a.firstName, b.firstName)

\* C23: the student list of a view is ordered by last name and then by
\* first name, in the "today" and in the "default" branch.
C23_OrderedByName ==
    (ViewedDate /\ resp.status = 200) =>
        \A i, j \in 1..Len(resp.body.students) :
           i < j => NameOrdered(resp.body.students[i], resp.body.students[j])

\* C23 witness: in a "today" view two students share their last name and
\* the one with the greater id comes first, by first name.
C23_Witness ==
    /\ ViewedDate
    /\ resp.status = 200
    /\ resp.body.source = "today"
    /\ \E i, j \in 1..Len(resp.body.students) :
          /\ i < j
          /\ resp.body.students[i].lastName = resp.body.students[j].lastName
          /\ resp.body.students[i].firstName # resp.body.students[j].firstName
          /\ resp.body.students[i].id > resp.body.students[j].id

(***************************************************************************)
(* The bus dashboard, the view and the plan writes for a client that logs  *)
(* in and out.                                                             *)
(***************************************************************************)
StaffPlanData ==
    {[student_id |-> i, dismissal_date |-> D_Tue, dismissal_type |-> x.ty,
      destination |-> x.dest] : i \in {1, 2, 3},
        x \in {[ty |-> "bus", dest |-> "POK"], [ty |-> "bus", dest |-> ""],
               [ty |-> "pickup", dest |-> "Front Door"]}}
    \cup {[student_id |-> 2, dismissal_date |-> D_Tue, dismissal_type |-> "bus",
           destination |-> "Arlington"]}

StaffEmails == {"teacher@mizzentop.org", "former@mizzentop.org",
                "guest@example.org"}

StaffViewDates == {D_Tue, D_Thu, D_Sat}

InitStaff ==
    /\ students \in Directories
    /\ daily_dismissal = EmptyBag
    /\ dismissal_today = EmptyBag
    /\ electives = default_electives
    /\ sql_conflict = FALSE
    /\ req = NoRequest
    /\ resp = NoResponse
    /\ procs = NoRequests
    /\ session = NoSession

NextStaff ==
    \/ \E email \in StaffEmails : auth_callback(email)
    \/ logout
    \/ \E data \in StaffPlanData : save_dismissal_plan(data)
                                     /\ OneAtATime
    \/ \E d \in {D_Tue}, i \in {1, 2, 3} : delete_dismissal_plan(d, i)
                                            /\ OneAtATime
    \/ \E d \in StaffViewDates \cup {D_Bad} : get_bus_dashboard(d)
    \/ \E d \in StaffViewDates : get_dismissal_today(d, NoneText)
                                  /\ OneAtATime

SpecStaff == InitStaff /\ [][NextStaff]_vars

\* the student ids on the dashboard, route by route
OnDashboard(buses) ==
    UNION {{buses[k].students[i].student_id :
               i \in 1..Len(buses[k].students)} : k \in 1..Len(buses)}

\* the routes under which the dashboard lists student i
RoutesOf(buses, i) ==
    {k \in 1..Len(buses) :
        \E n \in 1..Len(buses[k].students) :
            buses[k].students[n].student_id = i}

\* C26: every change of the dismissal stores is made for a caller with an
\* authenticated staff session
C26_WritesNeedSession ==
    [][(daily_dismissal' # daily_dismissal \/ dismissal_today' # dismissal_today)
          => session.user_email # NULL]_vars

\* C30: for a calendar date the bus dashboard and the dismissal view report
\* the same source tag; the students on the dashboard are among those the
\* view gives the dismissal 'bus' (all of them when the weekly defaults are
\* used, those with a non-empty destination when records are), and each of
\* them is under exactly one route
C30_DashboardAgreesWithView ==
    (resp.op = "get_bus_dashboard" /\ resp.status = 200 /\ IsIsoDate(req.date)) =>
        LET view == DismissalTodayResponse(daily_dismissal, students, req.date,
                                           NoneText)
            shown == view.body.students
            bus == {shown[i].id : i \in
                       {n \in 1..Len(shown) : shown[n].dismissal = "bus"}}
            routed == {shown[i].id : i \in
                       {n \in 1..Len(shown) :
                           /\ shown[n].dismissal = "bus"
                           /\ shown[n].activity \notin {NULL, ""}}}
            listed == OnDashboard(resp.body.buses)
        IN  /\ view.status = 200
            /\ resp.body.source = view.body.source
            /\ listed \subseteq bus
            /\ resp.body.source = "default" => listed = bus
            /\ resp.body.source = "today" => listed = routed
            /\ \A i \in listed : Cardinality(RoutesOf(resp.body.buses, i)) = 1
            /\ \A k \in 1..Len(resp.body.buses) :
                   /\ resp.body.buses[k].count = Len(resp.body.buses[k].students)
                   /\ \A n1, n2 \in 1..Len(resp.body.buses[k].students) :
                          resp.body.buses[k].students[n1].student_id
                              = resp.body.buses[k].students[n2].student_id
                          => n1 = n2

\* a dashboard built from records that lists one bus rider under a route
\* and leaves out another whose record has no destination
C30_Witness ==
    /\ resp.op = "get_bus_dashboard" /\ resp.status = 200
    /\ resp.body.source = "today"
    /\ OnDashboard(resp.body.buses) # {}
    /\ \E r \in BagToSet(daily_dismissal) :
           /\ r.dismissal_date = req.date /\ r.dismissal_type = "bus"
           /\ r.destination = ""
           /\ \E s \in students : s.student_id = r.student_id
                                    /\ s.status = "active"
           /\ r.student_id \notin OnDashboard(resp.body.buses)

(***************************************************************************)
(* Requests of several clients in progress at once.                        *)
(*                                                                         *)
(* Every handler opens its own connection.  A SELECT outside a transaction *)
(* reads the last committed state; the statements a handler writes between *)
(* its first INSERT / UPDATE / DELETE and its commit() hold the write lock *)
(* of the database, so they take effect together and the write             *)
(* transactions of different requests are serial.  A handler that reads    *)
(* and then writes (load_dismissal_defaults) or reads twice                *)
(* (get_dismissal_today) is therefore two steps, and the writes of other   *)
(* requests can land between them.                                         *)
(***************************************************************************)
\* the most store states one call of get_dismissal_today is followed through
MaxSeen == 2

Last(s) == s[Len(s)]

\* the calls of get_dismissal_today in progress see the store change to t
Observe(ps, t) ==
    [p \in Procs |->
        IF ps[p].pc = "view" /\ Last(ps[p].seen) # t
        THEN [ps[p] EXCEPT !.seen = Append(@, t)]
        ELSE ps[p]]

\* a write transaction commits while other requests are in progress
Landed ==
    /\ procs' = Observe(procs, daily_dismissal')
    /\ \A p \in Procs : procs'[p].pc = "view" => Len(procs'[p].seen) <= MaxSeen
    /\ UNCHANGED session

\* load_dismissal_defaults up to its two SELECTs
load_begin(p, data) ==
    /\ procs[p] = Idle
    /\ "date" \in DOMAIN data /\ ~NoText(data, "day_key")
    /\ data.day_key \in valid_days
    /\ procs' = [procs EXCEPT ![p] =
                    [pc |-> "load", data |-> data,
                     existing |-> ExistingIds(daily_dismissal, data.date),
                     todo |-> StudentsWithDefault(students,
                                                  DayKeyCol[data.day_key])]]
    /\ UNCHANGED <<students, daily_dismissal, dismissal_today, electives,
                   sql_conflict, req, resp, session>>

\* load_dismissal_defaults from its first INSERT OR IGNORE to its response
load_commit(p) ==
    /\ procs[p].pc = "load"
    /\ LET data == procs[p].data
           r == LoadLoop(daily_dismissal, procs[p].todo, procs[p].existing,
                         DayKeyCol[data.day_key], data.date, 0)
       IN  /\ daily_dismissal' = r.table
           /\ req' = [op |-> "load_dismissal_defaults", data |-> data,
                      existing |-> procs[p].existing]
           /\ resp' = Ok("load_dismissal_defaults",
                         [success |-> TRUE, inserted |-> r.inserted])
    /\ sql_conflict' = FALSE
    /\ BagCardinality(daily_dismissal') <= MaxRows
    /\ procs' = Observe([procs EXCEPT ![p] = Idle], daily_dismissal')
    /\ \A q \in Procs : procs'[q].pc = "view" => Len(procs'[q].seen) <= MaxSeen
    /\ UNCHANGED <<students, dismissal_today, electives, session>>

\* get_dismissal_today up to its SELECT COUNT(*)
view_count(p, date_param, grade_filter) ==
    /\ procs[p] = Idle
    /\ procs' = [procs EXCEPT ![p] =
                    [pc |-> "view", date |-> date_param, grade |-> grade_filter,
                     filled |-> CountForDate(daily_dismissal, date_param),
                     seen |-> <<daily_dismissal>>]]
    /\ electives' = init_dismissal_tables(electives)
    /\ UNCHANGED <<students, daily_dismissal, dismissal_today, sql_conflict,
                   req, resp, session>>

\* a handler that counts again when it reads the rows
RowsStep_recount(filled, t, dir, date_param, grade_filter) ==
    DismissalTodayResponse(t, dir, date_param, grade_filter)

\* the handler after the count, reading the store as it is by then
RowsStep(filled, t, dir, date_param, grade_filter) ==
    ViewResponse(filled, t, dir, date_param, grade_filter)

\* get_dismissal_today from its row query to its response
view_rows(p) ==
    /\ procs[p].pc = "view"
    /\ req' = [op |-> "get_dismissal_today", date |-> procs[p].date,
               grade |-> procs[p].grade, seen |-> procs[p].seen]
    /\ resp' = RowsStep(procs[p].filled, daily_dismissal, students,
                        procs[p].date, procs[p].grade)
    /\ sql_conflict' = FALSE
    /\ procs' = [procs EXCEPT ![p] = Idle]
    /\ UNCHANGED <<students, daily_dismissal, dismissal_today, electives,
                   session>>

RacePlanData ==
    {[student_id |-> 1, dismissal_date |-> D_Tue, dismissal_type |-> "pickup",
      destination |-> "Front Door"],
     [student_id |-> 1, dismissal_date |-> D_Tue, dismissal_type |-> "walker",
      destination |-> ""],
     [student_id |-> 2, dismissal_date |-> D_Tue, dismissal_type |-> "pickup",
      destination |-> "Front Door"]}

RaceBulkData ==
    {[student_ids |-> <<1, 2>>, dismissal_date |-> D_Tue,
      dismissal_type |-> "activity", destination |-> "Chess"]}

RaceLoadData == {[date |-> D_Tue, day_key |-> "tue"]}

InitRace ==
    /\ students = DirA
    /\ daily_dismissal = EmptyBag
    /\ dismissal_today = EmptyBag
    /\ electives = default_electives
    /\ sql_conflict = FALSE
    /\ req = NoRequest
    /\ resp = NoResponse
    /\ procs = NoRequests
    /\ session = NoSession

NextRace ==
    \/ \E data \in RacePlanData : save_dismissal_plan(data)
                                    /\ Landed
    \/ \E i \in {1, 2} : delete_dismissal_plan(D_Tue, i)
                          /\ Landed
    \/ \E data \in RaceBulkData : save_dismissal_bulk(data)
                                    /\ Landed
    \/ \E p \in Procs, data \in RaceLoadData : load_begin(p, data)
    \/ \E p \in Procs : load_commit(p)
    \/ \E p \in Procs : view_count(p, D_Tue, NoneText)
    \/ \E p \in Procs : view_rows(p)

SpecRace == InitRace /\ [][NextRace]_vars

\* what holds of the store t when the plan write q has just committed
AfterCommit(t, q) ==
    /\ \A r \in DOMAIN t :
           /\ t[r] = 1
           /\ Conflicting(t, r.student_id, r.dismissal_date) = {r}
    /\ q.op = "save_dismissal_plan" =>
           Conflicting(t, q.data.student_id, q.data.dismissal_date)
               = {PlanRow(q.data)}
    /\ q.op = "save_dismissal_bulk" =>
           \A i \in 1..Len(q.data.student_ids) :
               LET c == Conflicting(t, q.data.student_ids[i],
                                    q.data.dismissal_date)
               IN  /\ Cardinality(c) = 1
                   /\ \A r \in c :
                          /\ r.dismissal_type = q.data.dismissal_type
                          /\ r.destination = Get(q.data, "destination", "")
    /\ q.op = "load_dismissal_defaults" =>
           \A s \in StudentsWithDefault(students, DayKeyCol[q.data.day_key]) :
               s.student_id \notin q.existing =>
                   Cardinality(Conflicting(t, s.student_id, q.data.date)) = 1

\* C22: whatever the interleaving, when save_dismissal_plan,
\* save_dismissal_bulk or load_dismissal_defaults commits, no (student, date)
\* that had a record loses it and none has more than one; the record of an
\* upsert's (student, date) is the payload of the upsert that has just
\* committed (for the bulk upsert, its type and destination), and a student
\* whom load_dismissal_defaults found without a record has one
C22_OneRecordLastWriterWins ==
    [][(/\ req'.op \in {"save_dismissal_plan", "save_dismissal_bulk",
                        "load_dismissal_defaults"}
        /\ resp'.status = 200
        /\ (req' # req \/ daily_dismissal' # daily_dismissal))
       => /\ AfterCommit(daily_dismissal', req')
          /\ \A r \in DOMAIN daily_dismissal :
                 Conflicting(daily_dismissal', r.student_id,
                             r.dismissal_date) # {}]_vars

\* a load_dismissal_defaults that committed after another write had added a
\* record for a student the load had found without one
C22_Witness ==
    /\ req.op = "load_dismissal_defaults" /\ resp.status = 200
    /\ "existing" \in DOMAIN req
    /\ \E s \in StudentsWithDefault(students, DayKeyCol[req.data.day_key]) :
           /\ s.student_id \notin req.existing
           /\ DefaultPlanRow(s, DayKeyCol[req.data.day_key], req.data.date)
                 \notin DOMAIN daily_dismissal
           /\ Conflicting(daily_dismissal, s.student_id, req.data.date) # {}

\* C24: the source of a view is decided by the count taken at the check; a
\* view that counted no record answers source = 'default' with the rows of
\* the weekly defaults, whatever has been written since
C24_SourceFromTheCheck ==
    (req.op = "get_dismissal_today" /\ resp.status = 200) =>
        LET checked == Head(req.seen)
        IN  /\ resp.body.source = "default"
                <=> CountForDate(checked, req.date) = 0
            /\ resp.body.source = "default" =>
                   resp = DismissalTodayResponse(checked, students, req.date,
                                                 req.grade)

\* a view with source = 'default' although the store held a record for the
\* date when the rows were read
C24_Witness ==
    /\ req.op = "get_dismissal_today" /\ resp.status = 200
    /\ resp.body.source = "default"
    /\ CountForDate(Last(req.seen), req.date) > 0

\* C25: a view's response is the response computed from the store as it was
\* at one instant of the call
C25_ViewOfOneInstant ==
    req.op = "get_dismissal_today" =>
        \E i \in 1..Len(req.seen) :
            resp = DismissalTodayResponse(req.seen[i], students, req.date,
                                          req.grade)

\* C29: the 'inserted' of load_dismissal_defaults is the number of records
\* its commit added to the store, and the records stored before the commit
\* are kept as they were
C29_InsertedIsAdded ==
    [][(\E p \in Procs : procs[p].pc = "load" /\ procs'[p].pc = "idle") =>
          /\ resp'.body.inserted
                = BagCardinality(daily_dismissal') - BagCardinality(daily_dismissal)
          /\ \A r \in DOMAIN daily_dismissal :
                 r \in DOMAIN daily_dismissal']_vars

=============================================================================
